---- MODULE Spec2Model ----
(***************************************************************************)
(* History tables of CATMAID (migration 0004_add_history_table_support):   *)
(* the registry catmaid_history_table, the functions create_history_table, *)
(* drop_history_table, drop_all_history_tables and the row trigger         *)
(* update_history_of_row, run inside PostgreSQL transactions.              *)
(***************************************************************************)
EXTENDS Integers, Sequences, FiniteSets, TLC

\* ------------------------------------------------------------------ bounds
MaxTime == 3      \* transaction timestamps are 1..MaxTime
MaxRows == 2      \* rows the history tables can hold together
MaxList == 2      \* names a list handed to the bootstrap can hold

Time == 1..MaxTime
Ids  == {1}        \* values of the id column
\* the rows two concurrent sessions work on, the table they are in, and the
\* number of history rows their runs may leave
PairIds   == {1, 2}
PairTable == "widget"
MaxPairRows == 4
\* the sessions that run concurrently
Procs == {"A", "B"}
Vals == {"foo", "bar"}

\* SQL NULL in a timestamp position (an unbounded end of a range)
Null == -1
\* current_timestamp of the transaction that ran the migration
MigrationTime == 0
\* absence markers
NoRow   == "norow"
NoName  == ""
NoTable ==
    [exists |-> FALSE, inherits |-> NoName, rows |-> <<>>, columns |-> {}, indexes |-> {}]
NoTrigger == [events |-> {}, argv |-> <<>>]

\* ------------------------------------------------------------ the catalog
\* The relations of the modelled database, <<schema, name>>. In public:
\* widget; gadget inheriting widget; hybrid inheriting both widget and gadget;
\* sprocket inheriting hybrid. A second schema has a table named widget too.
Relations ==
    {<<"public", "widget">>, <<"public", "gadget">>, <<"public", "hybrid">>,
     <<"public", "sprocket">>, <<"other", "widget">>}

\* The relations an unqualified name reaches (search_path is public)
pg_class == {r[2] : r \in {x \in Relations : x[1] = "public"}}

\* The view catmaid_inheritening_tables:
\* <<parent_schemaname, parent_tablename, child_schemaname, child_tablename>>
catmaid_inheritening_tables ==
    {<<"public", "widget", "public", "gadget">>,
     <<"public", "widget", "public", "hybrid">>,
     <<"public", "gadget", "public", "hybrid">>,
     <<"public", "hybrid", "public", "sprocket">>}

\* Names a caller can pass: the live tables and one name that is no table
Names == pg_class \cup {"nosuch"}

\* Schemas a caller can pass
Schemas == {r[1] : r \in Relations}

\* The names of temp_versioned_table, in the order the migration lists them
temp_versioned_table == <<"gadget", "widget">>

\* The tables the migration versions; the application writes their rows
Versioned == {temp_versioned_table[k] : k \in DOMAIN temp_versioned_table}

\* history_table_name(): the live name plus the suffix _history
history_table_name(live_table_name) == live_table_name \o "_history"

HistNames == {history_table_name(n) : n \in Names}

VARIABLES
    live,     \* live[t][i]: the value column of row i of live table t, or NoRow
    hist,     \* hist[h]: the history table h (exists, inherits, rows)
    trig,     \* trig[t]: the trigger on_change_<t>_update_history (events, TG_ARGV)
    reg,      \* the rows of catmaid_history_table
    tx,       \* the session's transaction: status and current_timestamp
    saved,    \* the database as of the transaction's start
    last,     \* the statement the open transaction block ran last
    sess      \* the concurrent sessions: where each is in its statement

vars == <<live, hist, trig, reg, tx, saved, last, sess>>

\* ------------------------------------------------------------- tstzrange
EmptyRange == [lo |-> Null, hi |-> Null, empty |-> TRUE]

\* tstzrange(l, u) raises when both bounds are set and l > u
tstzrange_raises(l, u) == l # Null /\ u # Null /\ l > u

\* tstzrange(l, u), the range [l, u); it is empty when l = u
tstzrange(l, u) ==
    IF l # Null /\ u # Null /\ l = u THEN EmptyRange
    ELSE [lo |-> l, hi |-> u, empty |-> FALSE]

\* lower(r): NULL for an empty range and for a range without lower bound
lower(r) == IF r.empty THEN Null ELSE r.lo

\* upper_inf(r): the range is not empty and has no upper bound
upper_inf(r) == ~r.empty /\ r.hi = Null

\* r @> t: the range contains the time t
contains(r, t) ==
    /\ ~r.empty
    /\ (r.lo = Null \/ r.lo <= t)
    /\ (r.hi = Null \/ t < r.hi)

\* -------------------------------------------------- history table helpers
\* h and every history table inheriting from it, directly or not
RECURSIVE Descendants(_, _)
Descendants(H, h) ==
    {h} \cup UNION {Descendants(H, c) :
                      c \in {x \in DOMAIN H : H[x].exists /\ H[x].inherits = h}}

\* One row of a history table: the live columns plus sys_period
HistRow(id, val, period) == [id |-> id, val |-> val, sys_period |-> period]

\* ------------------------------------------------- update_history_of_row
\* SetPeriod writing a range that has no upper bound
SetPeriod_NoUpper(rows, id, now) ==
    [k \in 1..Len(rows) |->
        IF rows[k].id = id
        THEN [rows[k] EXCEPT !.sys_period = tstzrange(lower(@), Null)]
        ELSE rows[k]]

\* SetPeriod with the UPDATE matching the rows of every id
SetPeriod_AllRows(rows, id, now) ==
    [k \in 1..Len(rows) |->
        [rows[k] EXCEPT !.sys_period = tstzrange(lower(@), now)]]

\* SetPeriod with the UPDATE matching no row: nothing is closed
SetPeriod_NoMatch(rows, id, now) == rows

\* UPDATE <h> SET sys_period = tstzrange(lower(sys_period), now) WHERE id = <id>
\* applied to the rows stored in one table
SetPeriod(rows, id, now) ==
    [k \in 1..Len(rows) |->
        IF rows[k].id = id
        THEN [rows[k] EXCEPT !.sys_period = tstzrange(lower(@), now)]
        ELSE rows[k]]

\* The UPDATE of history table h reaches h and the tables inheriting from it
UpdateHistory(H, h, id, now) ==
    LET reached == Descendants(H, h)
    IN  [x \in DOMAIN H |->
            IF x \in reached
            THEN [H[x] EXCEPT !.rows = SetPeriod(@, id, now)]
            ELSE H[x]]

\* ... and raises when one of the new ranges cannot be built
UpdateRaises(H, h, id, now) ==
    \E x \in Descendants(H, h) : \E k \in 1..Len(H[x].rows) :
        /\ H[x].rows[k].id = id
        /\ tstzrange_raises(lower(H[x].rows[k].sys_period), now)

\* InsertHistory writing a range without lower bound
InsertHistory_NoLower(H, h, new, now) ==
    [H EXCEPT ![h].rows = Append(@, HistRow(new.id, new.val, tstzrange(Null, Null)))]

\* INSERT INTO <h> (columns, sys_period) SELECT (NEW).*, tstzrange(now, null)
InsertHistory(H, h, new, now) ==
    [H EXCEPT ![h].rows = Append(@, HistRow(new.id, new.val, tstzrange(now, Null)))]

\* BadArgs accepting every argument list
BadArgs_Never(TG_ARGV) == FALSE

\* IF TG_NARGS != 3 THEN RAISE EXCEPTION
BadArgs(TG_ARGV) == Len(TG_ARGV) # 3

\* The trigger function. TG_ARGV is <<sys_period, history table, true>>;
\* the result is whether it raised and the history tables it leaves.
update_history_of_row(H, TG_OP, TG_ARGV, old_id, new, now) ==
    IF BadArgs(TG_ARGV) THEN [raised |-> TRUE, hist |-> H]
    ELSE
    LET h  == IF Len(TG_ARGV) >= 2 THEN TG_ARGV[2] ELSE NoName
        closing   == TG_OP \in {"UPDATE", "DELETE"}
        inserting == TG_OP \in {"INSERT", "UPDATE"}
        H1 == IF closing THEN UpdateHistory(H, h, old_id, now) ELSE H
    IN  IF h \notin DOMAIN H \/ ~H[h].exists THEN [raised |-> TRUE, hist |-> H]
        ELSE IF closing /\ UpdateRaises(H, h, old_id, now)
        THEN [raised |-> TRUE, hist |-> H]
        ELSE [raised |-> FALSE,
              hist   |-> IF inserting THEN InsertHistory(H1, h, new, now) ELSE H1]

\* ---------------------------------------------------- create_history_table
Database(H, T, R) == [hist |-> H, trig |-> T, reg |-> R]

\* RegEntry with its two names exchanged
RegEntry_Swapped(h, t) == [history_table_name |-> t, live_table_name |-> h]

\* RegEntry losing the live table name
RegEntry_NoLive(h, t) == [history_table_name |-> h, live_table_name |-> NoName]

\* A row of catmaid_history_table. Its third column, creation_time, is set by
\* its DEFAULT and read by none of the functions; it is not kept.
RegEntry(h, t) == [history_table_name |-> h, live_table_name |-> t]

\* SELECT ... INTO STRICT parent_info FROM catmaid_inheritening_tables
\* ParentsOf seeing one parent at most
ParentsOf_First(schema, name) ==
    LET all == {<<x[1], x[2]>> : x \in {y \in catmaid_inheritening_tables :
                                           y[3] = schema /\ y[4] = name}}
    IN  IF all = {} THEN {} ELSE {CHOOSE p \in all : TRUE}

\* WHERE child_tablename = live_table_name AND child_schemaname = live_table_schema
ParentsOf(schema, name) ==
    {<<x[1], x[2]>> : x \in {y \in catmaid_inheritening_tables :
                                y[3] = schema /\ y[4] = name}}

\* InheritanceLookup looking for parents whatever copy_inheritance says
InheritanceLookup_Always(copy_inheritance, schema, name) == ParentsOf(schema, name)

\* IF copy_inheritance THEN ... SELECT ... INTO STRICT parent_info: the rows
\* the SELECT finds, none when copy_inheritance is false
InheritanceLookup(copy_inheritance, schema, name) ==
    IF copy_inheritance THEN ParentsOf(schema, name) ELSE {}

\* IsRegistered finding a row, whatever the registry holds
IsRegistered_Always(R, h) == TRUE

\* IsRegistered finding no row, whatever the registry holds
IsRegistered_Never(R, h) == FALSE

\* EXISTS(SELECT 1 FROM catmaid_history_table WHERE history_table_name = h)
IsRegistered(R, h) == \E e \in R : e.history_table_name = h

\* Trigger without the DELETE event
Trigger_NoDelete(h) ==
    [events |-> {"INSERT", "UPDATE"}, argv |-> <<"sys_period", h, "true">>]

\* CREATE TRIGGER ... AFTER INSERT OR UPDATE OR DELETE ON live FOR EACH ROW
\* EXECUTE PROCEDURE update_history_of_row(sys_period, h, true)
Trigger(h) ==
    [events |-> {"INSERT", "UPDATE", "DELETE"}, argv |-> <<"sys_period", h, "true">>]

\* IsRelation taking every text for a relation
IsRelation_Any(schema, name) == TRUE

\* The cast of format('%s.%s', schema, name) to regclass finds the relation
IsRelation(schema, name) == <<schema, name>> \in Relations

\* A column of a table: its name, its NOT NULL constraint and its DEFAULT
\* ("NULL" when it has none)
Column(name, not_null, default) ==
    [name |-> name, not_null |-> not_null, default |-> default]

\* The columns of the live tables: a serial id and a value that has a default
LiveColumns(schema, name) ==
    IF <<schema, name>> \in Relations
    THEN {Column("id", TRUE, "nextval"), Column("val", TRUE, "'foo'")}
    ELSE {}

\* (LIKE live): the names and NOT NULL constraints are copied, the defaults
\* are not. The unqualified name is the table of schema public.
LikeColumns(name) ==
    {Column(c.name, c.not_null, "NULL") : c \in LiveColumns("public", name)}

\* (LIKE live) INHERITS (parent history): the parent's columns, merged with
\* the columns of the same name, and the other columns of the table itself
InheritColumns(inherited, own) ==
    {IF \E o \in own : o.name = c.name
     THEN Column(c.name,
                 c.not_null \/ \E o \in own : o.name = c.name /\ o.not_null,
                 c.default)
     ELSE c : c \in inherited}
        \cup {o \in own : ~\E c \in inherited : c.name = o.name}

\* SELECT c.column_name FROM information_schema.columns c
\* WHERE c.table_name = live_table_name, in whatever schema
information_schema_columns(name) ==
    {c.name : c \in UNION {LiveColumns(r[1], r[2]) :
                              r \in {x \in Relations : x[2] = name}}}

\* RelaxColumns leaving the columns as they are
RelaxColumns_Keep(cols, names) == cols

\* ALTER COLUMN ... DROP NOT NULL and ALTER COLUMN ... SET DEFAULT NULL for
\* each of the names
RelaxColumns(cols, names) ==
    {IF c.name \in names THEN Column(c.name, FALSE, "NULL") ELSE c : c \in cols}

\* ALTER COLUMN raises on a column the history table has not
RelaxRaises(cols, names) == \E n \in names : \A c \in cols : c.name # n

\* ADD COLUMN sys_period tstzrange NOT NULL DEFAULT ..., if it is not there
AddSysPeriod(cols) ==
    IF \E c \in cols : c.name = "sys_period" THEN cols
    ELSE cols \cup {Column("sys_period", TRUE, "tstzrange(current_timestamp, null)")}

\* CREATE INDEX <h>_sys_period, if to_regclass finds no relation of that name
AddIndex(h, indexes) ==
    IF (h \o "_sys_period") \in indexes THEN indexes
    ELSE indexes \cup {h \o "_sys_period"}

\* LikeRows with the new table holding a row
LikeRows_Copied(name) == <<HistRow(1, "foo", tstzrange(MigrationTime, Null))>>

\* CREATE TABLE ... (LIKE live) copies the columns of the live table, not its
\* rows: the rows of the new table
LikeRows(name) == <<>>

\* The recursive call made without triggers, as its comment has it
RecursionTriggers_None == FALSE

\* PERFORM create_history_table(parent_schemaname, parent_tablename, TRUE, TRUE):
\* the create_triggers argument of the recursive call
RecursionTriggers == TRUE

RECURSIVE create_history_table(_, _, _, _, _)
create_history_table(D, live_table_schema, live_table_name, create_triggers, copy_inheritance) ==
    LET h == history_table_name(live_table_name)
        raise == [raised |-> TRUE, db |-> D]
    IN
    \* the cast of schema.name to regclass
    IF ~IsRelation(live_table_schema, live_table_name) THEN raise
    \* already registered under this history table name
    ELSE IF IsRegistered(D.reg, h)
    THEN [raised |-> FALSE, db |-> D]
    ELSE
    LET parents == InheritanceLookup(copy_inheritance, live_table_schema,
                                     live_table_name)
    IN
    IF Cardinality(parents) > 1 THEN raise          \* TOO_MANY_ROWS
    ELSE
    LET found  == parents # {}
        parent_info == IF found THEN CHOOSE p \in parents : TRUE
                       ELSE <<NoName, NoName>>
        rec == IF found
               THEN create_history_table(D, parent_info[1], parent_info[2],
                                         RecursionTriggers, TRUE)
               ELSE [raised |-> FALSE, db |-> D]
    IN
    IF rec.raised THEN raise
    ELSE
    LET D1 == rec.db
        ph == IF found THEN history_table_name(parent_info[2]) ELSE NoName
        \* CREATE TABLE IF NOT EXISTS h (LIKE live) [INHERITS (ph)]
        H2 == IF D1.hist[h].exists THEN D1.hist
              ELSE [D1.hist EXCEPT ![h] =
                        [exists |-> TRUE, inherits |-> ph,
                         rows |-> LikeRows(live_table_name),
                         columns |-> IF found
                                     THEN InheritColumns(D1.hist[ph].columns,
                                                         LikeColumns(live_table_name))
                                     ELSE LikeColumns(live_table_name),
                         indexes |-> {}]]
        \* the loop over the columns; ALTER TABLE reaches the inheriting tables
        names == information_schema_columns(live_table_name)
        reached == Descendants(H2, h)
        H3 == [x \in DOMAIN H2 |->
                  IF x \in reached
                  THEN [H2[x] EXCEPT !.columns = RelaxColumns(@, names)]
                  ELSE H2[x]]
        H4 == [H3 EXCEPT ![h].columns = AddSysPeriod(@),
                         ![h].indexes = AddIndex(h, @)]
    IN
    \* LIKE and INHERITS name relations that must be there
    IF ~D1.hist[h].exists /\ live_table_name \notin pg_class THEN raise
    ELSE IF found /\ ~D1.hist[h].exists /\ ~D1.hist[ph].exists THEN raise
    ELSE IF RelaxRaises(H2[h].columns, names) THEN raise
    ELSE IF ~create_triggers
    THEN [raised |-> FALSE, db |-> Database(H4, D1.trig, D1.reg)]
    \* CREATE TRIGGER raises when the table is not there or has the trigger
    ELSE IF live_table_name \notin pg_class THEN raise
    ELSE IF D1.trig[live_table_name] # NoTrigger THEN raise
    ELSE [raised |-> FALSE,
          db |-> Database(H4,
                    [D1.trig EXCEPT ![live_table_name] = Trigger(h)],
                    D1.reg \cup {RegEntry(h, live_table_name)})]

\* The tables create_history_table is called for, in the order of the calls,
\* when it is called for schema.name: the table itself, and as long as the
\* call passes the cast and the check of the registry and finds one parent,
\* the parent, for which the call is made with copy_inheritance = TRUE
RECURSIVE Walk(_, _, _, _)
Walk(D, schema, name, copy_inheritance) ==
    IF ~IsRelation(schema, name) THEN <<<<schema, name>>>>
    ELSE IF IsRegistered(D.reg, history_table_name(name)) THEN <<<<schema, name>>>>
    ELSE LET parents == InheritanceLookup(copy_inheritance, schema, name)
         IN  IF Cardinality(parents) # 1 THEN <<<<schema, name>>>>
             ELSE LET parent_info == CHOOSE p \in parents : TRUE
                  IN  <<<<schema, name>>>> \o Walk(D, parent_info[1], parent_info[2], TRUE)

\* ------------------------------------------------------ drop_history_table
\* drop_history_table deleting the registry rows of the other tables
drop_history_table_DeleteOthers(D, live_table_name) ==
    LET h == history_table_name(live_table_name)
        gone == IF D.hist[h].exists THEN Descendants(D.hist, h) ELSE {}
    IN  Database([x \in DOMAIN D.hist |-> IF x \in gone THEN NoTable ELSE D.hist[x]],
                 [D.trig EXCEPT ![live_table_name] = NoTrigger],
                 {e \in D.reg : e.live_table_name = live_table_name})

\* drop_history_table dropping the history table that h inherits from as well
drop_history_table_DropParent(D, live_table_name) ==
    LET h == history_table_name(live_table_name)
        gone == IF D.hist[h].exists THEN Descendants(D.hist, h) \cup {D.hist[h].inherits}
                ELSE {}
    IN  Database([x \in DOMAIN D.hist |-> IF x \in gone THEN NoTable ELSE D.hist[x]],
                 [D.trig EXCEPT ![live_table_name] = NoTrigger],
                 {e \in D.reg : e.live_table_name # live_table_name})

drop_history_table(D, live_table_name) ==
    LET h == history_table_name(live_table_name)
        \* DROP TABLE IF EXISTS h CASCADE
        gone == IF D.hist[h].exists THEN Descendants(D.hist, h) ELSE {}
    IN  Database([x \in DOMAIN D.hist |-> IF x \in gone THEN NoTable ELSE D.hist[x]],
                 \* DROP TRIGGER IF EXISTS on_change_<live>_update_history
                 [D.trig EXCEPT ![live_table_name] = NoTrigger],
                 \* DELETE FROM catmaid_history_table WHERE live_table_name = ...
                 {e \in D.reg : e.live_table_name # live_table_name})

\* ------------------------------------------------- drop_all_history_tables
\* drop_all_history_tables leaving the loop after its first row
drop_all_history_tables_OnlyHead(D, order) ==
    IF order = <<>> THEN D ELSE drop_history_table(D, Head(order))

\* The loop over the rows of catmaid_history_table, in the order given
RECURSIVE drop_all_history_tables(_, _)
drop_all_history_tables(D, order) ==
    IF order = <<>> THEN D
    ELSE drop_all_history_tables(drop_history_table(D, Head(order)), Tail(order))

\* The orders a scan of a set of registry rows can have
Orders(S) ==
    {o \in [1..Cardinality(S) -> S] : \A x \in S : \E k \in DOMAIN o : o[k] = x}

\* ---------------------------------------------------------- the migration
\* bootstrap reading the first row of the list only
bootstrap_OnlyHead(D, names) ==
    IF names = <<>> THEN [raised |-> FALSE, db |-> D]
    ELSE create_history_table(D, "public", Head(names), TRUE, TRUE)

\* SELECT create_history_table('public', t.name) FROM temp_versioned_table t
RECURSIVE bootstrap(_, _)
bootstrap(D, names) ==
    IF names = <<>> THEN [raised |-> FALSE, db |-> D]
    ELSE LET r == create_history_table(D, "public", Head(names), TRUE, TRUE)
         IN  IF r.raised THEN r ELSE bootstrap(r.db, Tail(names))

NoHistory ==
    Database([h \in HistNames |-> NoTable], [t \in Names |-> NoTrigger], {})

\* The migration is one transaction: it leaves all of it or nothing
Migrated ==
    LET r == bootstrap(NoHistory, temp_versioned_table)
    IN  IF r.raised THEN NoHistory ELSE r.db

\* A session that runs no statement
NoSession ==
    [pc |-> "idle", t |-> NoName, id |-> 0, val |-> NoRow, old |-> NoRow, now |-> 0]

\* No session runs a statement. base is the database as it was when the
\* first of the sessions of a run started, overlap whether a session of the
\* run started while another one was in its statement.
NoSessions ==
    [base |-> [live |-> <<>>, hist |-> <<>>], overlap |-> FALSE,
     run |-> [p \in Procs |-> NoSession]]

\* The database after the migration has run on an empty database
Init ==
    /\ live = [t \in pg_class |-> [i \in Ids \cup PairIds |-> NoRow]]
    /\ hist = Migrated.hist
    /\ trig = Migrated.trig
    /\ reg  = Migrated.reg
    /\ tx   = [status |-> "idle", now |-> MigrationTime]
    /\ saved = [live |-> live, hist |-> hist, trig |-> trig, reg |-> reg]
    /\ last = "none"
    /\ sess = NoSessions

\* ------------------------------------------------------------ transactions
Snapshot == [live |-> live, hist |-> hist, trig |-> trig, reg |-> reg]

\* BEGIN: current_timestamp is fixed for the whole transaction
Begin(ts) ==
    /\ tx.status = "idle"
    /\ tx' = [status |-> "active", now |-> ts]
    /\ saved' = Snapshot
    /\ last' = "none"
    /\ UNCHANGED <<live, hist, trig, reg, sess>>

Idle == [status |-> "idle", now |-> MigrationTime]

Commit ==
    /\ tx.status = "active"
    /\ tx' = Idle
    /\ saved' = Snapshot
    /\ last' = "none"
    /\ UNCHANGED <<live, hist, trig, reg, sess>>

\* Rollback leaving the registry as the transaction made it
Rollback_KeepRegistry ==
    /\ tx.status \in {"active", "failed"}
    /\ live' = saved.live
    /\ hist' = saved.hist
    /\ trig' = saved.trig
    /\ tx' = Idle
    /\ last' = "none"
    /\ UNCHANGED <<reg, saved, sess>>

\* ROLLBACK, the only way on after a statement has raised
Rollback ==
    /\ tx.status \in {"active", "failed"}
    /\ live' = saved.live
    /\ hist' = saved.hist
    /\ trig' = saved.trig
    /\ reg'  = saved.reg
    /\ tx' = Idle
    /\ last' = "none"
    /\ UNCHANGED <<saved, sess>>

\* The number of rows the history tables of S hold together
RECURSIVE TotalRows(_, _)
TotalRows(H, S) ==
    IF S = {} THEN 0
    ELSE LET h == CHOOSE x \in S : TRUE
         IN  Len(H[h].rows) + TotalRows(H, S \ {h})

\* The history tables have room for one more row
Room == TotalRows(hist, HistNames) < MaxRows

\* --------------------------------------------------------------- statements
\* What a statement leaves: whether it raised, and the database if it did not
Result(raised, L, H, T, R) ==
    [raised |-> raised, live |-> L, hist |-> H, trig |-> T, reg |-> R]

\* Fire running the trigger function whether t has the trigger or not
Fire_Always(t, TG_OP, old_id, new, now) ==
    update_history_of_row(hist, TG_OP, Trigger(history_table_name(t)).argv,
                          old_id, new, now)

\* The AFTER ... FOR EACH ROW trigger of t, if t has one
Fire(t, TG_OP, old_id, new, now) ==
    IF TG_OP \notin trig[t].events THEN [raised |-> FALSE, hist |-> hist]
    ELSE update_history_of_row(hist, TG_OP, trig[t].argv, old_id, new, now)

\* INSERT INTO t VALUES (i, v)
InsertStmt(t, i, v, now) ==
    LET r == Fire(t, "INSERT", i, [id |-> i, val |-> v], now)
    IN  Result(r.raised, [live EXCEPT ![t][i] = v], r.hist, trig, reg)

\* UPDATE t SET id = j, val = v WHERE id = i
UpdateStmt(t, i, j, v, now) ==
    LET r == Fire(t, "UPDATE", i, [id |-> j, val |-> v], now)
    IN  Result(r.raised,
               [live EXCEPT ![t] = [[@ EXCEPT ![i] = NoRow] EXCEPT ![j] = v]],
               r.hist, trig, reg)

\* DELETE FROM t WHERE id = i
DeleteStmt(t, i, now) ==
    LET r == Fire(t, "DELETE", i, [id |-> i, val |-> live[t][i]], now)
    IN  Result(r.raised, [live EXCEPT ![t][i] = NoRow], r.hist, trig, reg)

\* SELECT create_history_table(schema, name, create_triggers, copy_inheritance)
CreateHistoryStmt(schema, name, create_triggers, copy_inheritance) ==
    LET r == create_history_table(Database(hist, trig, reg), schema, name,
                                  create_triggers, copy_inheritance)
    IN  Result(r.raised, live, r.db.hist, r.db.trig, r.db.reg)

\* SELECT create_history_table('public', t.name) FROM <names> t
BootstrapStmt(names) ==
    LET r == bootstrap(Database(hist, trig, reg), names)
    IN  Result(r.raised, live, r.db.hist, r.db.trig, r.db.reg)

\* SELECT drop_history_table(name)
DropHistoryStmt(name) ==
    LET d == drop_history_table(Database(hist, trig, reg), name)
    IN  Result(FALSE, live, d.hist, d.trig, d.reg)

\* SELECT drop_all_history_tables(), the registry being scanned in this order
DropAllStmt(order) ==
    LET d == drop_all_history_tables(Database(hist, trig, reg), order)
    IN  Result(FALSE, live, d.hist, d.trig, d.reg)

\* A statement inside the open transaction: when it raises, its effects are
\* undone and the transaction can only be rolled back
Exec(op, r) ==
    /\ tx.status = "active"
    /\ IF r.raised
       THEN /\ tx' = [tx EXCEPT !.status = "failed"]
            /\ UNCHANGED <<live, hist, trig, reg>>
       ELSE /\ live' = r.live
            /\ hist' = r.hist
            /\ trig' = r.trig
            /\ reg'  = r.reg
            /\ UNCHANGED tx
    /\ last' = op
    /\ UNCHANGED <<saved, sess>>

\* A statement outside a transaction block is a transaction of its own:
\* committed when it returns, rolled back when it raises
AutoExec(r) ==
    /\ tx.status = "idle"
    /\ IF r.raised
       THEN UNCHANGED <<live, hist, trig, reg, saved>>
       ELSE /\ live' = r.live
            /\ hist' = r.hist
            /\ trig' = r.trig
            /\ reg'  = r.reg
            /\ saved' = [live |-> r.live, hist |-> r.hist,
                         trig |-> r.trig, reg |-> r.reg]
    /\ UNCHANGED <<tx, last, sess>>

\* ------------------------------------------------- statements on live rows
CanInsert(t, i) == live[t][i] = NoRow /\ Room
CanUpdate(t, i, j) == live[t][i] # NoRow /\ (j = i \/ live[t][j] = NoRow) /\ Room
CanDelete(t, i) == live[t][i] # NoRow

Create(t, i, v) ==
    CanInsert(t, i) /\ Exec("INSERT", InsertStmt(t, i, v, tx.now))

Modify(t, i, j, v) ==
    CanUpdate(t, i, j) /\ Exec("UPDATE", UpdateStmt(t, i, j, v, tx.now))

Remove(t, i) ==
    CanDelete(t, i) /\ Exec("DELETE", DeleteStmt(t, i, tx.now))

AutoCreate(ts, t, i, v) ==
    CanInsert(t, i) /\ AutoExec(InsertStmt(t, i, v, ts))

AutoModify(ts, t, i, j, v) ==
    CanUpdate(t, i, j) /\ AutoExec(UpdateStmt(t, i, j, v, ts))

AutoRemove(ts, t, i) ==
    CanDelete(t, i) /\ AutoExec(DeleteStmt(t, i, ts))

\* ------------------------------------------------ administrative statements
CreateHistory(schema, name, create_triggers, copy_inheritance) ==
    Exec("create_history_table",
         CreateHistoryStmt(schema, name, create_triggers, copy_inheritance))

DropHistory(name) == Exec("drop_history_table", DropHistoryStmt(name))

DropAll ==
    \E order \in Orders({e.live_table_name : e \in reg}) :
        Exec("drop_all_history_tables", DropAllStmt(order))

AutoCreateHistory(schema, name, create_triggers, copy_inheritance) ==
    AutoExec(CreateHistoryStmt(schema, name, create_triggers, copy_inheritance))

AutoDropHistory(name) == AutoExec(DropHistoryStmt(name))

AutoDropAll ==
    \E order \in Orders({e.live_table_name : e \in reg}) :
        AutoExec(DropAllStmt(order))

\* The lists of distinct names a bootstrap can be handed
Lists ==
    UNION {{l \in [1..n -> Names] : \A j, k \in 1..n : l[j] = l[k] => j = k} :
              n \in 0..MaxList}

AutoBootstrap(names) == AutoExec(BootstrapStmt(names))

\* An administrative transaction; its timestamp plays no part
AdminBegin == Begin(MigrationTime + 1)

\* ---------------------------------------------------------- specifications
\* Every statement, each a transaction of its own
Next ==
    \/ \E ts \in Time, t \in Versioned, i \in Ids, v \in Vals : AutoCreate(ts, t, i, v)
    \/ \E ts \in Time, t \in Versioned, i \in Ids, j \in Ids, v \in Vals :
            AutoModify(ts, t, i, j, v)
    \/ \E ts \in Time, t \in Versioned, i \in Ids : AutoRemove(ts, t, i)
    \/ \E s \in Schemas, n \in Versioned \cup {"nosuch"}, ct \in BOOLEAN, ci \in BOOLEAN :
            AutoCreateHistory(s, n, ct, ci)
    \/ \E n \in Versioned \cup {"nosuch"} : AutoDropHistory(n)
    \/ AutoDropAll

Spec == Init /\ [][Next]_vars

\* Transactions of statements on live rows, on the migrated database
NextCapture ==
    \/ \E ts \in Time : Begin(ts)
    \/ Commit
    \/ Rollback
    \/ \E t \in Versioned, i \in Ids, v \in Vals : Create(t, i, v)
    \/ \E t \in Versioned, i \in Ids, j \in Ids, v \in Vals : Modify(t, i, j, v)
    \/ \E t \in Versioned, i \in Ids : Remove(t, i)

SpecCapture == Init /\ [][NextCapture]_vars

\* The timestamps the rows of the history tables bear
Stamps ==
    UNION {{hist[x[1]].rows[x[2]].sys_period.lo, hist[x[1]].rows[x[2]].sys_period.hi} :
              x \in {y \in HistNames \X (1..MaxRows) : y[2] <= Len(hist[y[1]].rows)}}
        \ {Null}

\* One session running its transactions one after the other: each starts
\* later than every timestamp written so far
SerialBegin(ts) == Begin(ts) /\ \A s \in Stamps : s < ts

NextSerial ==
    \/ \E ts \in Time : SerialBegin(ts)
    \/ Commit
    \/ Rollback
    \/ \E t \in Versioned, i \in Ids, v \in Vals : Create(t, i, v)
    \/ \E t \in Versioned, i \in Ids, j \in Ids, v \in Vals : Modify(t, i, j, v)
    \/ \E t \in Versioned, i \in Ids : Remove(t, i)

SpecSerial == Init /\ [][NextSerial]_vars

\* A statement of the one session that is a transaction of its own bears a
\* timestamp later than every timestamp written so far
Later(ts) == \A s \in Stamps : s < ts

\* One session: statements on live rows in the order of their timestamps, and
\* history tables of the versioned tables made and dropped in between
NextLive ==
    \/ \E ts \in Time, t \in Versioned, i \in Ids, v \in Vals :
            Later(ts) /\ AutoCreate(ts, t, i, v)
    \/ \E ts \in Time, t \in Versioned, i \in Ids, v \in Vals :
            Later(ts) /\ AutoModify(ts, t, i, i, v)
    \/ \E ts \in Time, t \in Versioned, i \in Ids :
            Later(ts) /\ AutoRemove(ts, t, i)
    \/ \E n \in Versioned, ct \in BOOLEAN, ci \in BOOLEAN :
            AutoCreateHistory("public", n, ct, ci)
    \/ \E n \in Versioned : AutoDropHistory(n)

SpecLive == Init /\ [][NextLive]_vars

\* Transactions of administrative statements
NextAdmin ==
    \/ AdminBegin
    \/ Commit
    \/ Rollback
    \/ \E s \in Schemas, n \in Names, ct \in BOOLEAN, ci \in BOOLEAN :
            CreateHistory(s, n, ct, ci)
    \/ \E n \in Names : DropHistory(n)
    \/ DropAll

SpecAdmin == Init /\ [][NextAdmin]_vars

\* Administrative statements on every table, each a transaction of its own
NextSchema ==
    \/ \E s \in Schemas, n \in Names, ct \in BOOLEAN, ci \in BOOLEAN :
            AutoCreateHistory(s, n, ct, ci)
    \/ \E n \in Names : AutoDropHistory(n)
    \/ AutoDropAll
    \/ \E names \in Lists : AutoBootstrap(names)

SpecSchema == Init /\ [][NextSchema]_vars

\* ------------------------------------------------------ concurrent sessions
AllIdle == \A p \in Procs : sess.run[p].pc = "idle"

\* INSERT INTO widget, no session being in a statement
PairCreate(ts, i) ==
    /\ AllIdle
    /\ live[PairTable][i] = NoRow
    /\ AutoExec(InsertStmt(PairTable, i, "foo", ts))

\* Session p, with current_timestamp ts, runs UPDATE widget SET val = v
\* WHERE id = i: the row is written, the AFTER ROW trigger is still to run.
\* A session on the row another session is writing waits for the row lock;
\* the sessions of a run are on different rows.
PairBegin(p, ts, i, v) ==
    /\ tx.status = "idle"
    /\ sess.run[p].pc = "idle"
    /\ live[PairTable][i] # NoRow
    /\ \A q \in Procs \ {p} : sess.run[q].pc = "idle" \/ sess.run[q].id # i
    /\ AllIdle => TotalRows(hist, HistNames) + Cardinality(Procs) <= MaxPairRows
    /\ sess' = [base    |-> IF AllIdle THEN [live |-> live, hist |-> hist]
                            ELSE sess.base,
                overlap |-> sess.overlap
                              \/ \E q \in Procs : sess.run[q].pc \in {"update", "close"},
                run     |-> [sess.run EXCEPT ![p] =
                               [pc |-> "update", t |-> PairTable, id |-> i, val |-> v,
                                old |-> live[PairTable][i], now |-> ts]]]
    /\ live' = [live EXCEPT ![PairTable][i] = v]
    /\ UNCHANGED <<hist, trig, reg, tx, saved, last>>

\* The trigger of session p runs its UPDATE of the history table; when that
\* raises, the statement is undone
PairClose(p) ==
    LET s == sess.run[p]
        h == trig[s.t].argv[2]
    IN  /\ s.pc = "update"
        /\ IF UpdateRaises(hist, h, s.id, s.now)
           THEN /\ live' = [live EXCEPT ![s.t][s.id] = s.old]
                /\ sess' = [sess EXCEPT !.run[p].pc = "raised"]
                /\ UNCHANGED hist
           ELSE /\ hist' = UpdateHistory(hist, h, s.id, s.now)
                /\ sess' = [sess EXCEPT !.run[p].pc = "close"]
                /\ UNCHANGED live
        /\ UNCHANGED <<trig, reg, tx, saved, last>>

\* The trigger of session p runs its INSERT into the history table, and the
\* statement returns
PairInsert(p) ==
    LET s == sess.run[p]
        h == trig[s.t].argv[2]
    IN  /\ s.pc = "close"
        /\ hist' = InsertHistory(hist, h, [id |-> s.id, val |-> s.val], s.now)
        /\ sess' = [sess EXCEPT !.run[p].pc = "done"]
        /\ UNCHANGED <<live, trig, reg, tx, saved, last>>

\* Every session has run its statement
AllEnded == \A p \in Procs : sess.run[p].pc \in {"done", "raised"}

PairEnd ==
    /\ AllEnded
    /\ sess' = NoSessions
    /\ UNCHANGED <<live, hist, trig, reg, tx, saved, last>>

\* Two sessions, each running one UPDATE of a row of its own at a time
NextPair ==
    \/ \E ts \in Time, i \in PairIds : PairCreate(ts, i)
    \/ \E p \in Procs, ts \in Time, i \in PairIds, v \in Vals : PairBegin(p, ts, i, v)
    \/ \E p \in Procs : PairClose(p)
    \/ \E p \in Procs : PairInsert(p)
    \/ PairEnd

SpecPair == Init /\ [][NextPair]_vars

\* Session p calls create_history_table('public', n) and runs its check of
\* the registry: it returns when the table is registered
RaceCheck(p, n) ==
    /\ tx.status = "idle"
    /\ sess.run[p].pc = "idle"
    /\ IsRelation("public", n)
    /\ sess' = [sess EXCEPT !.run[p] =
                  [NoSession EXCEPT !.t = n,
                                    !.pc = IF IsRegistered(reg, history_table_name(n))
                                           THEN "returned" ELSE "checked"]]
    /\ UNCHANGED <<live, hist, trig, reg, tx, saved, last>>

\* What the statements after the check leave, the check having found no row:
\* they run on the database as it is by now
AfterCheck(D, n) ==
    LET r == create_history_table(
                 [D EXCEPT !.reg = {e \in @ : e.history_table_name # history_table_name(n)}],
                 "public", n, TRUE, TRUE)
    IN  [raised |-> r.raised,
         db |-> IF r.raised THEN D ELSE [r.db EXCEPT !.reg = @ \cup D.reg]]

\* Session p runs the rest of the function and commits, or raises
RaceFinish(p) ==
    LET r == AfterCheck(Database(hist, trig, reg), sess.run[p].t)
    IN  /\ sess.run[p].pc = "checked"
        /\ hist' = r.db.hist
        /\ trig' = r.db.trig
        /\ reg'  = r.db.reg
        /\ sess' = [sess EXCEPT !.run[p].pc = IF r.raised THEN "raised" ELSE "done"]
        /\ UNCHANGED <<live, tx, saved, last>>

RaceEnd ==
    /\ ~AllIdle
    /\ \A p \in Procs : sess.run[p].pc # "checked"
    /\ sess' = NoSessions
    /\ UNCHANGED <<live, hist, trig, reg, tx, saved, last>>

\* drop_history_table, no session being in a call
RaceDrop(n) == AllIdle /\ AutoDropHistory(n)

\* Two sessions calling create_history_table at the same time
NextRace ==
    \/ \E p \in Procs, n \in pg_class : RaceCheck(p, n)
    \/ \E p \in Procs : RaceFinish(p)
    \/ RaceEnd
    \/ \E n \in pg_class : RaceDrop(n)

SpecRace == Init /\ [][NextRace]_vars

TypeOK ==
    /\ tx.status \in {"idle", "active", "failed"}
    /\ TotalRows(hist, HistNames) <= MaxRows \/ sess # NoSessions \/ live[PairTable][2] # NoRow

\* ================================================================= claims
\* Positions of the rows of identity i stored in history table h itself
OwnRows(h, i) == {k \in 1..Len(hist[h].rows) : hist[h].rows[k].id = i}

\* The rows of identity i a query of h returns: those stored in h and in the
\* history tables inheriting from h, as <<table, position>>
VisibleRows(h, i) ==
    {x \in Descendants(hist, h) \X (1..MaxRows) :
        x[2] <= Len(hist[x[1]].rows) /\ hist[x[1]].rows[x[2]].id = i}

PeriodOf(x) == hist[x[1]].rows[x[2]].sys_period

\* A row is open when its validity range has no upper bound (valid_to = null)
OpenOwn(h, i) == {k \in OwnRows(h, i) : upper_inf(hist[h].rows[k].sys_period)}
OpenVisible(h, i) == {x \in VisibleRows(h, i) : upper_inf(PeriodOf(x))}

\* C1 as stated: for every history table and identity, at most one of the rows
\* visible through the table, rows of inheriting child histories included, is
\* open.
C1_OneOpenRowVisible ==
    \A h \in HistNames : \A i \in Ids :
        hist[h].exists => Cardinality(OpenVisible(h, i)) <= 1

\* C1 amended: for every history table and identity, at most one of the rows
\* stored in the table itself is open (rows of child histories not counted).
C1_OneOpenRowOwn ==
    \A h \in HistNames : \A i \in Ids :
        hist[h].exists => Cardinality(OpenOwn(h, i)) <= 1

\* A Modify has closed a row of an identity and opened the next one
C1_Witness ==
    \E h \in HistNames : \E i \in Ids :
        /\ Cardinality(OpenOwn(h, i)) = 1
        /\ Cardinality(OwnRows(h, i)) = 2

\* The history table of a live table, and whether the live table is registered
HistOf(t) == history_table_name(t)
Registered(t) == \E e \in reg : e.live_table_name = t

\* Instants a validity range can be asked about
Instants == 0..(MaxTime + 1)

Overlap(p, q) == \E T \in Instants : contains(p, T) /\ contains(q, T)

\* A step is a statement on live rows that returned without raising
Created(t, i)  == (\E v \in Vals : Create(t, i, v)) /\ tx'.status = "active"
Modified(t, i) == (\E j \in Ids, v \in Vals : Modify(t, i, j, v)) /\ tx'.status = "active"
Removed(t, i)  == Remove(t, i) /\ tx'.status = "active"

\* C2 as stated: the validity ranges of the rows of one identity in one
\* history table are pairwise non-overlapping, and valid_from increases
\* strictly in the order the rows were written (stated for the rows whose
\* valid_from is set).
C2_IntervalsOrdered ==
    \A h \in HistNames : \A i \in Ids : \A k, m \in OwnRows(h, i) :
        LET p == hist[h].rows[k].sys_period
            q == hist[h].rows[m].sys_period
        IN  (k < m /\ lower(p) # Null /\ lower(q) # Null) =>
                /\ ~Overlap(p, q)
                /\ lower(p) < lower(q)

\* A row is closed when its validity range has an upper bound (valid_to set)
Closed(r) == ~r.sys_period.empty /\ r.sys_period.hi # Null

\* C3 as stated: a Modify or Remove leaves every history row that is already
\* closed with the validity range it had.
C3_ClosedRowsKept ==
    [][\A t \in pg_class : \A i \in Ids :
          (Modified(t, i) \/ Removed(t, i)) =>
              \A h \in HistNames : \A k \in 1..Len(hist[h].rows) :
                  Closed(hist[h].rows[k]) =>
                      hist'[h].rows[k].sys_period = hist[h].rows[k].sys_period]_vars

\* C4: a Create and a Modify that return append exactly one row to the history
\* table of the entity, carrying the new image with the range [now, null), and
\* no row anywhere else; a Create changes no row that was there before.
C4_OneRowInserted ==
    [][\A t \in pg_class : \A i \in Ids : \A j \in Ids : \A v \in Vals :
          LET h == HistOf(t)
              n == Len(hist[h].rows)
              new == HistRow(j, v, [lo |-> tx.now, hi |-> Null, empty |-> FALSE])
          IN  /\ (Modify(t, i, j, v) /\ tx'.status = "active" /\ Registered(t)) =>
                    /\ Len(hist'[h].rows) = n + 1
                    /\ hist'[h].rows[n + 1] = new
                    /\ \A x \in HistNames \ {h} : Len(hist'[x].rows) = Len(hist[x].rows)
              /\ (i = j /\ Create(t, i, v) /\ tx'.status = "active" /\ Registered(t)) =>
                    hist' = [hist EXCEPT ![h].rows = Append(@, new)]]_vars

\* A Modify has returned: the open row carries the live image from now on
C4_Witness ==
    /\ last = "UPDATE"
    /\ tx.status = "active"
    /\ \E t \in pg_class : \E i \in Ids :
          /\ Cardinality(OwnRows(HistOf(t), i)) = 2
          /\ \E k \in OpenOwn(HistOf(t), i) :
                /\ hist[HistOf(t)].rows[k].val = live[t][i]
                /\ hist[HistOf(t)].rows[k].sys_period.lo = tx.now
                /\ hist[HistOf(t)].rows[k].val # hist[HistOf(t)].rows[1].val

\* C5: a Remove that returns inserts no row, gives the open row of the
\* identity the range [valid_from, now), and leaves no open row of the
\* identity in the history of the entity.
C5_RemoveClosesOnly ==
    [][\A t \in pg_class : \A i \in Ids :
          (Removed(t, i) /\ Registered(t)) =>
              LET h == HistOf(t)
              IN  /\ \A x \in HistNames : Len(hist'[x].rows) = Len(hist[x].rows)
                  /\ \A k \in OpenOwn(h, i) :
                        hist'[h].rows[k] =
                            [hist[h].rows[k] EXCEPT !.sys_period =
                                tstzrange(hist[h].rows[k].sys_period.lo, tx.now)]
                  /\ \A k \in 1..Len(hist'[h].rows) :
                        hist'[h].rows[k].id = i =>
                            ~upper_inf(hist'[h].rows[k].sys_period)]_vars

\* A Remove has returned: the row is gone and its last history row ends now
C5_Witness ==
    /\ last = "DELETE"
    /\ tx.status = "active"
    /\ \E t \in pg_class : \E i \in Ids :
          /\ live[t][i] = NoRow
          /\ OpenOwn(HistOf(t), i) = {}
          /\ \E k \in OwnRows(HistOf(t), i) :
                /\ hist[HistOf(t)].rows[k].sys_period.hi = tx.now
                /\ hist[HistOf(t)].rows[k].sys_period.lo < tx.now
                /\ hist[HistOf(t)].rows[k].sys_period.lo # Null

\* C6 as stated, in the part that needs no record of the past: at every
\* instant T, at most one history row of an identity stored for an entity has
\* a validity range containing T.
C6_OneRowPerInstant ==
    \A h \in HistNames : \A i \in Ids : \A T \in Instants :
        Cardinality({k \in OwnRows(h, i) : contains(hist[h].rows[k].sys_period, T)}) <= 1

\* C7: capture is atomic with the live mutation. A statement that changes a
\* live row of a registered entity leaves, in the same step, the history of
\* the entity in step with it: an open row with the new image written now if
\* the row is there, no open row if it is gone. A transaction block keeps the
\* database of its start untouched, and a rollback leaves the live and the
\* history rows exactly as they were when the transaction began.
C7_CaptureAtomic ==
    [][/\ (tx.status = "active" /\ tx'.status = "active") =>
            \A t \in pg_class : \A i \in Ids :
                (Registered(t) /\ live'[t][i] # live[t][i]) =>
                    IF live'[t][i] = NoRow
                    THEN \A k \in 1..Len(hist'[HistOf(t)].rows) :
                            hist'[HistOf(t)].rows[k].id = i =>
                                ~upper_inf(hist'[HistOf(t)].rows[k].sys_period)
                    ELSE \E k \in 1..Len(hist'[HistOf(t)].rows) :
                            hist'[HistOf(t)].rows[k] =
                                HistRow(i, live'[t][i], tstzrange(tx.now, Null))
       /\ (tx.status = "idle" /\ tx'.status = "active") => saved' = Snapshot
       /\ (tx.status = "active" /\ tx'.status # "idle") => saved' = saved
       /\ Rollback => (hist' = saved.hist /\ live' = saved.live)]_vars

\* A transaction has captured a mutation and a later statement of it has
\* raised: it can only abort
C7_Witness ==
    /\ tx.status = "failed"
    /\ \E t \in pg_class : \E i \in Ids :
          /\ live[t][i] # saved.live[t][i]
          /\ hist[HistOf(t)].rows # saved.hist[HistOf(t)].rows

\* C8: create_history_table on a registered table raises nothing and changes
\* nothing, whatever its flags; and a call that registers a table leaves one
\* registry row and one history table for it, which a second call keeps.
C8_CreateIdempotent ==
    \A n \in Names : \A ct, ci, ct2, ci2 \in BOOLEAN :
        LET D  == Database(hist, trig, reg)
            r1 == create_history_table(D, "public", n, ct, ci)
            r2 == create_history_table(r1.db, "public", n, ct2, ci2)
        IN  /\ Registered(n) => r1 = [raised |-> FALSE, db |-> D]
            /\ (~Registered(n) /\ ct /\ ~r1.raised) =>
                  /\ Cardinality({e \in r1.db.reg : e.live_table_name = n}) = 1
                  /\ r1.db.hist[HistOf(n)].exists
                  /\ r2 = [raised |-> FALSE, db |-> r1.db]

\* A registered table whose history table holds rows, on which a call returns
C8_Witness ==
    \E n \in pg_class :
        /\ Registered(n)
        /\ hist[HistOf(n)].exists
        /\ Len(hist[HistOf(n)].rows) > 0
        /\ ~create_history_table(Database(hist, trig, reg), "public", n, TRUE, TRUE).raised

\* C9 as stated: a table has a registry row exactly when its history table
\* exists and the trigger is installed on it.
C9_RegistryIffStructureAndHook ==
    \A n \in Names :
        Registered(n) <=> (hist[HistOf(n)].exists /\ trig[n] # NoTrigger)

\* b inherits a in the live schema
Inherits(b, a) == <<"public", a, "public", b>> \in catmaid_inheritening_tables

\* C10 as stated: after drop_history_table(a), neither a nor a versioned
\* table inheriting from a has a history table, a trigger or a registry row.
C10_TeardownComplete ==
    [][\A a \in pg_class :
          (DropHistory(a) /\ tx'.status = "active") =>
              \A b \in pg_class :
                  (b = a \/ (Inherits(b, a) /\ Registered(b))) =>
                      /\ ~hist'[HistOf(b)].exists
                      /\ trig'[b] = NoTrigger
                      /\ \A e \in reg' : e.live_table_name # b]_vars

\* a is the one parent of b in the live schema
OnlyParent(a, b) == ParentsOf("public", b) = {<<"public", a>>}

\* C11 as stated: when a live table and its one parent are both versioned
\* (registered, their history tables there), the history table of the child
\* is a descendant of the history table of the parent, so that a query of the
\* parent's history returns the child's history rows; whatever the order and
\* the flags the two histories were created with.
C11_InheritanceMirrored ==
    \A a \in pg_class : \A b \in pg_class :
        (/\ OnlyParent(a, b)
         /\ Registered(a) /\ hist[HistOf(a)].exists
         /\ Registered(b) /\ hist[HistOf(b)].exists)
            => HistOf(b) \in Descendants(hist, HistOf(a))

\* C13 as stated: a call on b that follows the inheritance and returns, in a
\* state where the one parent a of b is not versioned, leaves a with a history
\* table, but with no trigger and no registry row.
C13_RecursionInstallsNoCapture ==
    [][\A a \in pg_class : \A b \in pg_class : \A ct \in BOOLEAN :
          (/\ AutoCreateHistory("public", b, ct, TRUE)
           /\ ~CreateHistoryStmt("public", b, ct, TRUE).raised
           /\ OnlyParent(a, b)
           /\ ~Registered(b)
           /\ ~Registered(a) /\ ~hist[HistOf(a)].exists)
              => /\ hist'[HistOf(a)].exists
                 /\ trig'[a] = NoTrigger
                 /\ \A e \in reg' : e.live_table_name # a]_vars

\* The direct parents of a live table, read off the catalog
DirectParents(n) ==
    {x[2] : x \in {y \in catmaid_inheritening_tables :
                      y[3] = "public" /\ y[4] = n}}

\* n or one of its ancestors has more than one direct parent
RECURSIVE MultiParentOnChain(_)
MultiParentOnChain(n) ==
    \/ Cardinality(DirectParents(n)) > 1
    \/ \E p \in DirectParents(n) : MultiParentOnChain(p)

\* The walk from n up its parents, which ends at a registered table, comes
\* to a table with more than one direct parent
RECURSIVE WalkMeetsMultiParent(_)
WalkMeetsMultiParent(n) ==
    /\ ~IsRegistered(reg, history_table_name(n))
    /\ \/ Cardinality(DirectParents(n)) > 1
       \/ \E p \in DirectParents(n) : WalkMeetsMultiParent(p)

\* What the statement leaves when it raises: nothing of it
Raised == Result(TRUE, live, hist, trig, reg)

\* C12 as stated: create_history_table following the inheritance, on a table
\* that has more than one direct parent or an ancestor that has, raises and
\* leaves no history table, trigger or registry row behind.
C12_MultiParentRejected ==
    \A n \in pg_class : \A ct \in BOOLEAN :
        MultiParentOnChain(n) =>
            LET r == CreateHistoryStmt("public", n, ct, TRUE)
            IN  r.raised /\ r = Raised

\* C12 amended: the call raises, and leaves nothing behind, when the table is
\* not registered and the walk up its parents comes to a table with more than
\* one direct parent before it comes to a registered one.
C12_UnregisteredMultiParentRejected ==
    \A n \in pg_class : \A ct \in BOOLEAN :
        WalkMeetsMultiParent(n) =>
            LET r == CreateHistoryStmt("public", n, ct, TRUE)
            IN  r.raised /\ r = Raised

\* The history table of hybrid is there, made without a look at its parents,
\* and a call that looks at them raises, on hybrid and on its child sprocket
C12_Witness ==
    /\ hist[HistOf("hybrid")].exists
    /\ ~Registered("hybrid")
    /\ WalkMeetsMultiParent("sprocket")
    /\ CreateHistoryStmt("public", "hybrid", TRUE, TRUE).raised
    /\ CreateHistoryStmt("public", "sprocket", TRUE, TRUE).raised

\* C14: synthesis is all or nothing. A create_history_table that raises,
\* in the call itself or in the recursive call for a parent, leaves the
\* history tables, the triggers and the registry as they were before it; a
\* transaction keeps the database of its start untouched, and its rollback
\* puts the history tables, the triggers and the registry back to it.
C14_SynthesisAllOrNothing ==
    [][/\ (/\ tx.status = "active"
           /\ last' = "create_history_table"
           /\ tx'.status = "failed")
              => (hist' = hist /\ trig' = trig /\ reg' = reg)
       /\ (tx.status = "idle" /\ tx'.status = "active") => saved' = Snapshot
       /\ (tx.status = "active" /\ tx'.status # "idle") => saved' = saved
       /\ (tx.status # "idle" /\ tx'.status = "idle" /\ saved' = saved) =>
            (hist' = saved.hist /\ trig' = saved.trig /\ reg' = saved.reg)]_vars

\* A transaction has versioned tables, and a later create_history_table of
\* it has raised in the recursive call for hybrid, the parent of sprocket
C14_Witness ==
    /\ tx.status = "failed"
    /\ last = "create_history_table"
    /\ reg # saved.reg
    /\ hist # saved.hist
    /\ WalkMeetsMultiParent("sprocket")
    /\ ~WalkMeetsMultiParent("gadget")
    /\ Registered("gadget")

\* C15 as stated: create_history_table on a relation whose history table
\* name is registered for a different relation raises; it is not taken as
\* already done.
C15_CollisionRejected ==
    \A r \in Relations : \A ct, ci \in BOOLEAN :
        (\E e \in reg : /\ e.history_table_name = history_table_name(r[2])
                        /\ <<"public", e.live_table_name>> # r)
            => CreateHistoryStmt(r[1], r[2], ct, ci).raised

\* C16: create_history_table on a name that is no relation raises and
\* leaves every history table, trigger and registry row as it was.
C16_UnknownEntityRejected ==
    \A s \in Schemas : \A n \in Names : \A ct, ci \in BOOLEAN :
        <<s, n>> \notin Relations => CreateHistoryStmt(s, n, ct, ci) = Raised

\* gadget is not versioned: the call raises on the names that are no
\* relation, and only on them
C16_Witness ==
    /\ ~Registered("gadget")
    /\ ~hist[HistOf("gadget")].exists
    /\ CreateHistoryStmt("public", "nosuch", TRUE, TRUE).raised
    /\ CreateHistoryStmt("other", "gadget", TRUE, TRUE).raised
    /\ ~CreateHistoryStmt("public", "gadget", TRUE, TRUE).raised

\* A table has no history table, no trigger and no registry row
Unversioned(n) ==
    ~hist[HistOf(n)].exists /\ trig[n] = NoTrigger /\ ~Registered(n)

\* C17: drop_history_table is idempotent. On a table that has no history
\* table, no trigger and no registry row it changes nothing, and a second
\* drop_history_table of a table leaves what the first one left. (The
\* function has no statement that raises on something absent.)
C17_DropIdempotent ==
    \A n \in Names :
        LET D  == Database(hist, trig, reg)
            d1 == drop_history_table(D, n)
            d2 == drop_history_table(d1, n)
        IN  /\ d2 = d1
            /\ Unversioned(n) => d1 = D

\* gadget has been dropped while widget is versioned: a drop of gadget
\* changes nothing, a drop of widget does
C17_Witness ==
    /\ Unversioned("gadget")
    /\ Registered("widget") /\ hist[HistOf("widget")].exists
    /\ drop_history_table(Database(hist, trig, reg), "gadget")
          = Database(hist, trig, reg)
    /\ drop_history_table(Database(hist, trig, reg), "widget")
          # Database(hist, trig, reg)

\* The live tables the registry lists
RegisteredNames == {e.live_table_name : e \in reg}

\* C18: drop_all_history_tables ends in the same state whatever the order in
\* which it reads the registry, and that state has an empty registry and no
\* history table and no trigger for any table the registry listed.
C18_DropAllOrderIndependent ==
    LET D == Database(hist, trig, reg)
    IN  \A o1 \in Orders(RegisteredNames) :
            LET d1 == drop_all_history_tables(D, o1)
            IN  /\ \A o2 \in Orders(RegisteredNames) :
                      drop_all_history_tables(D, o2) = d1
                /\ d1.reg = {}
                /\ \A n \in RegisteredNames :
                      ~d1.hist[HistOf(n)].exists /\ d1.trig[n] = NoTrigger

\* The registry lists three tables or more, a parent and its child among
\* them, so that the orders differ in whether the cascade comes first
C18_Witness ==
    /\ Cardinality(RegisteredNames) >= 3
    /\ \E a \in RegisteredNames : \E b \in RegisteredNames :
          /\ hist[HistOf(b)].exists
          /\ hist[HistOf(b)].inherits = HistOf(a)

\* The names a list holds
Range(l) == {l[k] : k \in DOMAIN l}

\* C19: bootstrap gives the same result for every order of the same names:
\* both orders raise, or both return with the same registry, triggers and
\* history tables; and the history table of a listed table with one parent,
\* not versioned before, inherits from the history table of that parent.
C19_BootstrapOrderIndependent ==
    LET D == Database(hist, trig, reg)
    IN  \A l1 \in Lists :
            LET r1 == bootstrap(D, l1)
            IN  /\ \A l2 \in Lists :
                      Range(l2) = Range(l1) =>
                          LET r2 == bootstrap(D, l2)
                          IN  /\ r2.raised = r1.raised
                              /\ ~r1.raised => r2.db = r1.db
                /\ ~r1.raised =>
                      \A b \in Range(l1) : \A a \in pg_class :
                          (OnlyParent(a, b) /\ Unversioned(b)) =>
                              r1.db.hist[HistOf(b)].inherits = HistOf(a)

\* No table is versioned, as when the migration runs: the child listed first
\* and the parent listed first both return, the child's history inheriting
C19_Witness ==
    /\ reg = {}
    /\ \A h \in HistNames : ~hist[h].exists
    /\ LET r == bootstrap(Database(hist, trig, reg), <<"gadget", "widget">>)
       IN  /\ ~r.raised
           /\ r.db = bootstrap(Database(hist, trig, reg), <<"widget", "gadget">>).db
           /\ r.db.hist[HistOf("gadget")].inherits = HistOf("widget")

\* C20: after a bootstrap that returns, the registry holds exactly one row
\* for every listed name, and a history table for every listed name that
\* was not registered before.
C20_OneEntryPerName ==
    \A l \in Lists :
        LET r == bootstrap(Database(hist, trig, reg), l)
        IN  ~r.raised =>
                \A n \in Range(l) :
                    /\ Cardinality({e \in r.db.reg : e.live_table_name = n}) = 1
                    /\ ~Registered(n) => r.db.hist[HistOf(n)].exists

\* Neither widget nor gadget is registered, and a bootstrap listing the
\* child and its parent registers each of them once
C20_Witness ==
    /\ ~Registered("widget") /\ ~Registered("gadget")
    /\ LET r == bootstrap(Database(hist, trig, reg), <<"gadget", "widget">>)
       IN  /\ ~r.raised
           /\ Cardinality(r.db.reg) = Cardinality(reg) + 2

\* C21 as stated: a Modify or Remove on a registered table, for an identity
\* that has no open row in the history of the table, returns; the Remove
\* leaves the history rows as they were, and the Modify changes them by one
\* new open row only.
C21_MissingIntervalTolerated ==
    [][\A t \in pg_class : \A i \in Ids :
          (Registered(t) /\ hist[HistOf(t)].exists /\ OpenOwn(HistOf(t), i) = {}) =>
              /\ Remove(t, i) => (tx'.status = "active" /\ hist' = hist)
              /\ \A j \in Ids : \A v \in Vals :
                    Modify(t, i, j, v) =>
                        /\ tx'.status = "active"
                        /\ hist' = [hist EXCEPT ![HistOf(t)].rows =
                                      Append(@, HistRow(j, v, tstzrange(tx.now, Null)))]]_vars

\* C23 as stated: transactions that modify the same live row run one after
\* the other, and each Modify returns and leaves at most one open history row
\* of the identity, also when the transaction that comes second bears the
\* earlier timestamp.
C23_SameRowSerialized ==
    [][\A t \in pg_class : \A i \in Ids : \A v \in Vals :
          (Modify(t, i, i, v) /\ Registered(t) /\ hist[HistOf(t)].exists) =>
              /\ tx'.status = "active"
              /\ Cardinality({k \in 1..Len(hist'[HistOf(t)].rows) :
                    /\ hist'[HistOf(t)].rows[k].id = i
                    /\ upper_inf(hist'[HistOf(t)].rows[k].sys_period)}) <= 1]_vars

\* C22: a statement on the rows of a table that has no registry row returns
\* and leaves every history table, with its rows, as it was.
C22_UnregisteredNoCapture ==
    \A t \in pg_class : \A i \in Ids : \A v \in Vals : \A ts \in {tx.now, MaxTime} :
        ~Registered(t) =>
            /\ InsertStmt(t, i, v, ts) =
                  Result(FALSE, [live EXCEPT ![t][i] = v], hist, trig, reg)
            /\ UpdateStmt(t, i, i, v, ts) =
                  Result(FALSE, [live EXCEPT ![t][i] = v], hist, trig, reg)
            /\ DeleteStmt(t, i, ts) =
                  Result(FALSE, [live EXCEPT ![t][i] = NoRow], hist, trig, reg)

\* A table has a row and a history table made without the trigger, or left
\* without it, while the history of another table holds rows
C22_Witness ==
    \E t \in Versioned :
        /\ ~Registered(t)
        /\ live[t][1] # NoRow
        /\ hist[HistOf(t)].exists
        /\ \E u \in Versioned : Len(hist[HistOf(u)].rows) > 0

\* Argument lists of a trigger that are not <<sys_period, history table, true>>
MalformedArgs ==
    {<<>>, <<"sys_period">>}
        \cup {<<"sys_period", h>> : h \in HistNames}
        \cup {<<"sys_period", h, "true", "true">> : h \in HistNames}

C27_RegistryWellFormed ==
    /\ \A e \in reg : \A f \in reg :
          (e.history_table_name = f.history_table_name
              \/ e.live_table_name = f.live_table_name) => e = f
    /\ \A e \in reg : e.history_table_name = history_table_name(e.live_table_name)

\* Every table of the catalog is registered
C27_Witness ==
    /\ Cardinality(reg) = Cardinality(pg_class)
    /\ \A n \in pg_class : Registered(n)

\* C29: on a table without history table, trigger and registry row,
\* create_history_table with create_triggers = false makes the history table
\* and neither trigger nor registry row; create_history_table with
\* create_triggers = true called next does not raise, keeps every history
\* table as it is, and adds the one trigger and the one registry row.
C29_DeferredCapture ==
    \A n \in pg_class : \A ci \in BOOLEAN :
        Unversioned(n) =>
            LET h  == HistOf(n)
                r1 == create_history_table(Database(hist, trig, reg), "public", n, FALSE, ci)
                r2 == create_history_table(r1.db, "public", n, TRUE, ci)
            IN  /\ ~ci => ~r1.raised
                /\ ~r1.raised =>
                      /\ r1.db.hist[h].exists
                      /\ r1.db.trig[n] = NoTrigger
                      /\ \A e \in r1.db.reg :
                            e.live_table_name # n /\ e.history_table_name # h
                      /\ ~r2.raised
                      /\ r2.db.hist = r1.db.hist
                      /\ r2.db.trig = [r1.db.trig EXCEPT ![n] = Trigger(h)]
                      /\ r2.db.reg = r1.db.reg \cup {RegEntry(h, n)}

\* One table has a history table and neither trigger nor registry row, as
\* the first call leaves it, and another one has none of the three
C29_Witness ==
    /\ \E n \in pg_class :
          hist[HistOf(n)].exists /\ trig[n] = NoTrigger /\ ~Registered(n)
    /\ \E n \in pg_class : Unversioned(n) /\ ParentsOf("public", n) # {}

\* C30: create_history_table with copy_inheritance = false on a table without
\* history table, trigger and registry row does not raise, whatever the
\* parents of the table; the history table it makes inherits from nothing,
\* and no other history table, trigger or registry row is made or changed.
C30_NoInheritanceLookup ==
    \A n \in pg_class : \A ct \in BOOLEAN :
        Unversioned(n) =>
            LET h == HistOf(n)
                r == create_history_table(Database(hist, trig, reg), "public", n, ct, FALSE)
            IN  /\ ~r.raised
                /\ r.db.hist[h].exists
                /\ r.db.hist[h].inherits = NoName
                /\ r.db.hist = [hist EXCEPT ![h] = r.db.hist[h]]
                /\ r.db.trig = IF ct THEN [trig EXCEPT ![n] = Trigger(h)] ELSE trig
                /\ r.db.reg = IF ct THEN reg \cup {RegEntry(h, n)} ELSE reg

\* The table with two parents has a history table that inherits from
\* nothing, and a parent of it has no history table
C30_Witness ==
    \E n \in pg_class :
        /\ Cardinality(ParentsOf("public", n)) > 1
        /\ hist[HistOf(n)].exists
        /\ hist[HistOf(n)].inherits = NoName
        /\ \E p \in ParentsOf("public", n) : Unversioned(p[2])

\* C28: whatever calls of create_history_table have been made, a history
\* table has one column sys_period and the one index on it, and its other
\* columns are those of the live table, each without NOT NULL and with
\* default NULL.
C28_HistoryColumns ==
    \A n \in pg_class :
        LET h == HistOf(n)
        IN  hist[h].exists =>
                /\ Cardinality({c \in hist[h].columns : c.name = "sys_period"}) = 1
                /\ hist[h].indexes = {h \o "_sys_period"}
                /\ {c \in hist[h].columns : c.name # "sys_period"} =
                      {Column(c.name, FALSE, "NULL") : c \in LiveColumns("public", n)}

\* A history table that inherits from another one is registered; another
\* history table is there without trigger and registry row
C28_Witness ==
    /\ \E n \in pg_class :
          hist[HistOf(n)].exists /\ hist[HistOf(n)].inherits # NoName /\ Registered(n)
    /\ \E n \in pg_class :
          hist[HistOf(n)].exists /\ ~Registered(n) /\ trig[n] = NoTrigger

\* The rows of a table, each with the number of times it is stored
RowBag(rows) ==
    [r \in Range(rows) |-> Cardinality({k \in 1..Len(rows) : rows[k] = r})]

RowBags(H) == [h \in DOMAIN H |-> RowBag(H[h].rows)]

\* The UPDATE of session record s run alone on history tables H
Alone(H, s) ==
    update_history_of_row(H, "UPDATE", Trigger(history_table_name(s.t)).argv,
                          s.id, [id |-> s.id, val |-> s.val], s.now)

\* C24: when two sessions have run UPDATEs of different rows of one table,
\* in whatever interleaving of their steps, the history tables hold the rows
\* that the two UPDATEs leave when run one after the other, in either order,
\* and each UPDATE has raised or returned as it does then; a session in its
\* statement can always take its next step.
C24_DifferentRowsIndependent ==
    /\ AllEnded =>
          LET a  == sess.run["A"]
              b  == sess.run["B"]
              a1 == Alone(sess.base.hist, a)
              b2 == Alone(a1.hist, b)
              b1 == Alone(sess.base.hist, b)
              a2 == Alone(b1.hist, a)
          IN  /\ RowBags(hist) = RowBags(b2.hist)
              /\ RowBags(hist) = RowBags(a2.hist)
              /\ (a.pc = "raised") = a1.raised /\ (a.pc = "raised") = a2.raised
              /\ (b.pc = "raised") = b1.raised /\ (b.pc = "raised") = b2.raised
              /\ \A s \in {a, b} :
                    live[s.t][s.id] = IF s.pc = "raised" THEN s.old ELSE s.val
    /\ \A p \in Procs :
          /\ sess.run[p].pc = "update" => ENABLED PairClose(p)
          /\ sess.run[p].pc = "close" => ENABLED PairInsert(p)

\* Both sessions have returned, one having started while the other was in
\* its statement, with different timestamps
C24_Witness ==
    /\ \A p \in Procs : sess.run[p].pc = "done"
    /\ sess.overlap
    /\ sess.run["A"].now > sess.run["B"].now
    /\ sess.run["A"].t = sess.run["B"].t
    /\ sess.run["A"].id # sess.run["B"].id

\* C25 as stated: of two sessions that call create_history_table for the
\* same table at the same time, when one has made the history table the
\* other returns at its check of the registry and does not raise, and the
\* table has its one history table, trigger and registry row.
C25_RaceLoserReturns ==
    \A p \in Procs : \A q \in Procs \ {p} :
        (sess.run[q].pc = "done" /\ sess.run[p].t = sess.run[q].t
            /\ sess.run[p].pc \in {"returned", "done", "raised"}) =>
                /\ sess.run[p].pc = "returned"
                /\ hist[HistOf(sess.run[p].t)].exists
                /\ trig[sess.run[p].t] = Trigger(HistOf(sess.run[p].t))
                /\ Cardinality({e \in reg : e.live_table_name = sess.run[p].t}) = 1

\* C31 as stated: for a registered table and each id, a live row has exactly
\* one open row in the history table of the table, with the values of the
\* live row, and an id without live row has no open row there.
C31_OpenRowMirrorsLive ==
    \A t \in pg_class : \A i \in Ids :
        (Registered(t) /\ hist[HistOf(t)].exists) =>
            IF live[t][i] # NoRow
            THEN /\ Cardinality(OpenOwn(HistOf(t), i)) = 1
                 /\ \A k \in OpenOwn(HistOf(t), i) :
                       hist[HistOf(t)].rows[k].val = live[t][i]
            ELSE OpenOwn(HistOf(t), i) = {}

\* C34 as stated: a statement on row i of table t that returns changes, among
\* the history rows, only rows of id i stored in the history table of t; the
\* rows of every other history table, those of a table inheriting from t
\* included, stay as they are.
C34_NoCrossRowEffects ==
    [][\A t \in pg_class :
          (tx.status = "active" /\ tx'.status = "active" /\ live'[t] # live[t]) =>
              /\ \A h \in HistNames \ {HistOf(t)} : hist'[h] = hist[h]
              /\ \A i \in Ids : live'[t][i] = live[t][i] =>
                    /\ OwnRows(HistOf(t), i)' = OwnRows(HistOf(t), i)
                    /\ \A k \in OwnRows(HistOf(t), i) :
                          hist'[HistOf(t)].rows[k] = hist[HistOf(t)].rows[k]]_vars

\* C32 as stated: every trigger names a history table that exists, and no
\* INSERT, UPDATE or DELETE of a row of a live table, run with the timestamp
\* of the open transaction or of a new one, is made to fail by the trigger.
C32_CaptureNeverAborts ==
    /\ \A t \in pg_class :
          trig[t] # NoTrigger => hist[trig[t].argv[2]].exists
    /\ \A ts \in (IF tx.status = "active" THEN {tx.now} ELSE Time) :
          \A t \in pg_class : \A i \in Ids : \A v \in Vals :
              IF live[t][i] = NoRow
              THEN ~InsertStmt(t, i, v, ts).raised
              ELSE /\ ~UpdateStmt(t, i, i, v, ts).raised
                   /\ ~DeleteStmt(t, i, ts).raised

\* C33 as stated: the validity range of every history row has a lower bound,
\* and when it has an upper bound the lower bound is not above it; no row has
\* lost its lower bound (as the empty range has) or has its bounds inverted.
C33_RangesWellFormed ==
    \A h \in HistNames : \A k \in 1..Len(hist[h].rows) :
        LET p == hist[h].rows[k].sys_period
        IN  /\ ~p.empty
            /\ lower(p) # Null
            /\ ~upper_inf(p) => p.lo <= p.hi

\* C35: drop_history_table(n) does not raise and leaves the live rows as
\* they are, and for every table m other than n whose history table does not
\* inherit, directly or not, from the history table of n, it leaves the
\* history table with its rows, the trigger and the registry rows of m.
C35_DropFrame ==
    \A n \in Names :
        LET d == drop_history_table(Database(hist, trig, reg), n)
            r == DropHistoryStmt(n)
            outside == {m \in Names \ {n} :
                          HistOf(m) \notin Descendants(hist, HistOf(n))}
        IN  /\ ~r.raised
            /\ r.live = live
            /\ \A m \in outside :
                  /\ d.hist[HistOf(m)] = hist[HistOf(m)]
                  /\ d.trig[m] = trig[m]
            /\ {e \in d.reg : e.live_table_name \in outside}
                  = {e \in reg : e.live_table_name \in outside}
            /\ {e \in d.reg : e.history_table_name \in {HistOf(m) : m \in outside}}
                  = {e \in reg : e.history_table_name \in {HistOf(m) : m \in outside}}

\* The history table of a child is gone, with its trigger and registry row,
\* and the parent has its history table with rows, trigger and registry row
C35_Witness ==
    \E x \in catmaid_inheritening_tables :
        /\ Unversioned(x[4])
        /\ hist[HistOf(x[2])].exists
        /\ Len(hist[HistOf(x[2])].rows) > 0
        /\ trig[x[2]] = Trigger(HistOf(x[2]))
        /\ Registered(x[2])
        /\ live[x[2]][1] # NoRow

\* No table has a history table, a trigger or a registry row
NothingVersioned(D) ==
    /\ \A h \in DOMAIN D.hist : ~D.hist[h].exists
    /\ \A t \in DOMAIN D.trig : D.trig[t] = NoTrigger
    /\ D.reg = {}

\* C36: from a database where nothing is versioned, the bootstrap of a list
\* of names followed by drop_all_history_tables, whatever the order in which
\* it reads the registry, leaves a database where nothing is versioned: the
\* parents whose history tables the recursion made are registered, and
\* dropped with the others.
C36_BootstrapDropAllRoundTrip ==
    LET D == Database(hist, trig, reg)
    IN  NothingVersioned(D) =>
            \A names \in Lists :
                LET b  == bootstrap(D, names)
                    D1 == IF b.raised THEN D ELSE b.db
                IN  \A order \in Orders({e.live_table_name : e \in D1.reg}) :
                        NothingVersioned(drop_all_history_tables(D1, order))

\* Nothing is versioned: what drop_all_history_tables has left of the
\* migration's bootstrap, in which the recursion made the parent's history
C36_Witness ==
    /\ NothingVersioned(Database(hist, trig, reg))
    /\ Head(temp_versioned_table) \in {x[4] : x \in catmaid_inheritening_tables}
    /\ Migrated.reg # {}

C38_RecursionTerminates ==
    LET D == Database(hist, trig, reg)
        InRegistry(x) == \E e \in reg : e.history_table_name = x[2] \o "_history"
        Parents(x) == {<<y[1], y[2]>> : y \in {z \in catmaid_inheritening_tables :
                                                   z[3] = x[1] /\ z[4] = x[2]}}
    IN  \A s \in Schemas : \A n \in Names : \A ct \in BOOLEAN : \A ci \in BOOLEAN :
            LET w == Walk(D, s, n, ci)
                r == create_history_table(D, s, n, ct, ci)
                last_call == w[Len(w)]
            IN  /\ r.raised \in BOOLEAN
                /\ w[1] = <<s, n>>
                /\ Len(w) <= Cardinality(Relations)
                /\ \A j, k \in 1..Len(w) : w[j] = w[k] => j = k
                /\ \A k \in 1..(Len(w) - 1) :
                      /\ w[k] \in Relations
                      /\ ~InRegistry(w[k])
                      /\ Parents(w[k]) = {w[k + 1]}
                /\ \/ last_call \notin Relations /\ r.raised
                   \/ InRegistry(last_call)
                   \/ Parents(last_call) = {}
                   \/ Len(w) = 1 /\ ~ci
                   \/ Cardinality(Parents(last_call)) > 1 /\ r.raised
                /\ \A m \in Names \ {x[2] : x \in Range(w)} :
                      /\ r.db.hist[HistOf(m)] = hist[HistOf(m)]
                      /\ r.db.trig[m] = trig[m]
                      /\ \A e \in r.db.reg \ reg : e.live_table_name # m

\* A table with one parent is not registered and its parent is: the calls for
\* it stop at the parent. Another has an unregistered parent without parent.
C38_Witness ==
    /\ \E x \in catmaid_inheritening_tables :
          /\ ~IsRegistered(reg, HistOf(x[4]))
          /\ IsRegistered(reg, HistOf(x[2]))
          /\ Walk(Database(hist, trig, reg), x[3], x[4], TRUE) = <<<<x[3], x[4]>>, <<x[1], x[2]>>>>
    /\ \E n \in pg_class : Len(Walk(Database(hist, trig, reg), "public", n, TRUE)) = 1

====
